---- MODULE Spec2Model ----
(***************************************************************************)
(* Model of the Debrid.io -> M3U playlist gateway (jrstv25/iptv).          *)
(*                                                                         *)
(* Three specifications share the pure operators below:                    *)
(*   Spec      the server: request handlers, the cache, the clock and the  *)
(*             daily refresh timer, interleaved at every await;            *)
(*   SpecBuild one buildM3U call: the concurrent per-channel retry loops   *)
(*             of getChannelM3u, interleaved attempt by attempt;           *)
(*   SpecMulti one buildMultiRegionSportsM3U call, region by region, over  *)
(*             arbitrary catalogs and channel results.                     *)
(*                                                                         *)
(* Strings that the code joins and splits on "_" are represented by their  *)
(* split list: the string "a_b" is <<"a", "b">>, so that `${x}_${y}` is    *)
(* x \o y and key.split("_") is the list itself.  A word is a string with  *)
(* no "_" in it.                                                           *)
(***************************************************************************)
EXTENDS Integers, Sequences, FiniteSets, TLC

\* ------------------------------------------------------------------ bounds

MaxTasks == 3
MaxActive == 2
MaxTicks == 1
MaxChannels == 2
MaxRegions == 3
MaxPasses == 3
MaxRequests == 2

\* --------------------------------------------------------------- constants

HOUR == 60 * 60 * 1000
CACHE_DURATION == 24 * 60 * 60 * 1000
REFRESH_INTERVAL == 24 * 60 * 60 * 1000
DAY == 24 * HOUR
DefaultRetries == 3
BackoffMs == 500
validRegions == {"usa", "ca", "mx", "uk", "au", "cl", "fr", "it", "za", "nz", "ee"}

\* A query parameter that was not supplied (undefined in req.query).
NoParam == "<undefined>"
\* An apikey query parameter that was not supplied.
NoKey == <<>>

\* ----------------------------------------------------------- string helpers

\* String.prototype.trim on the region tokens the model feeds in.
Trim(s) ==
    CASE s = " uk" -> "uk"
      [] s = "usa " -> "usa"
      [] OTHER -> s

\* String.prototype.toUpperCase on region words.
ToUpper(s) ==
    CASE s = "usa" -> "USA"
      [] s = "uk" -> "UK"
      [] s = "ca" -> "CA"
      [] s = "sports" -> "SPORTS"
      [] OTHER -> s

\* String.prototype.toLowerCase on genre strings.
ToLower(s) ==
    CASE s = "Sports" -> "sports"
      [] s = "SPORTS" -> "sports"
      [] s = "News" -> "news"
      [] OTHER -> s

\* JavaScript truthiness of a query-string value: undefined and "" are falsy.
Truthy(v) == v # NoParam /\ v # ""

\* Array.prototype.filter
RECURSIVE SelectValid(_)
SelectValid(s) ==
    IF s = <<>> THEN <<>>
    ELSE IF Head(s) \in validRegions
         THEN <<Head(s)>> \o SelectValid(Tail(s))
         ELSE SelectValid(Tail(s))

\* regions.split(',').map(r => r.trim()).filter(r => validRegions.includes(r));
\* the raw parameter is given as its comma-split token list.
ParseRegions(tokens) == SelectValid([i \in 1..Len(tokens) |-> Trim(tokens[i])])

\* ------------------------------------------------------------- cache keys

\* `${apikey}_${region}`
PlainKey(apikey, region) == apikey \o <<region>>

\* `${apikey}_${region}_sports`
SportsOnlyKey(apikey, region) == apikey \o <<region, "sports">>

\* `${apikey}_sports_${regionList.join('_')}`
MultiKey(apikey, regionList) == apikey \o <<"sports">> \o regionList

\* const [apikey, region] = key.split("_");
SplitKey(key) ==
    [apikey |-> IF Len(key) >= 1 THEN <<key[1]>> ELSE NoKey,
     region |-> IF Len(key) >= 2 THEN key[2] ELSE NoParam]

\* ------------------------------------------------------------- cache store

\* The cache object: its properties in insertion order, as Object.keys lists them.
CacheKeys(c) == [i \in 1..Len(c) |-> c[i].key]

CacheHas(c, key) == \E i \in 1..Len(c) : c[i].key = key

CacheGet(c, key) == c[CHOOSE i \in 1..Len(c) : c[i].key = key]

\* A store that keeps the entry a key already has (first writer wins).
CachePutFirstWins(c, key, m3u, ts) ==
    IF CacheHas(c, key) THEN c
    ELSE Append(c, [key |-> key, m3u |-> m3u, timestamp |-> ts])

\* cache[key] = { m3u, timestamp }: an existing property keeps its position.
CachePut(c, key, m3u, ts) ==
    LET e == [key |-> key, m3u |-> m3u, timestamp |-> ts] IN
    IF CacheHas(c, key)
    THEN [i \in 1..Len(c) |-> IF c[i].key = key THEN e ELSE c[i]]
    ELSE Append(c, e)

\* now - cache[cacheKey].timestamp < CACHE_DURATION
IsFresh(entry, t) == t - entry.timestamp < CACHE_DURATION

\* CacheHit with the refresh test inverted (`refresh &&` for `!refresh &&`).
CacheHitInverted(c, key, refresh, t) ==
    /\ Truthy(refresh)
    /\ CacheHas(c, key)
    /\ IsFresh(CacheGet(c, key), t)

\* !refresh && cache[cacheKey] && (now - cache[cacheKey].timestamp < CACHE_DURATION)
CacheHit(c, key, refresh, t) ==
    /\ ~Truthy(refresh)
    /\ CacheHas(c, key)
    /\ IsFresh(CacheGet(c, key), t)

\* --------------------------------------------------------- upstream replies

\* The JSON body of a channel-metadata reply, as the code reads it.  kind "null"
\* is a body that parses to null, "nometa" an object without .meta, "meta" one
\* with it.  hasStreams / hasGenres tell whether .meta.streams / .meta.genres is
\* there; streams lists the elements of .meta.streams, each the url of a stream
\* object or "null" for a falsy element.
Json(kind, tvgId, name, hasGenres, genres, hasStreams, streams) ==
    [kind |-> kind, tvgId |-> tvgId, logo |-> <<"logo", tvgId>>, name |-> name,
     hasGenres |-> hasGenres, genres |-> genres,
     hasStreams |-> hasStreams, streams |-> streams]

\* null: a body that parses to null, and what getChannelM3u returns at line 40.
Null == Json("null", "-", "-", FALSE, <<>>, FALSE, <<>>)

\* One reply of the metadata endpoint to one attempt: ok is FALSE for a network
\* error, a non-2xx status or a body that does not parse.
OkReply(json) == [ok |-> TRUE, json |-> json]
FailReply == [ok |-> FALSE, json |-> Null]

\* The test without its last disjunct, !m3u.meta.streams[0], for a non-empty list.
UnusableNoFirstStream(m3u) ==
    \/ m3u.kind # "meta"
    \/ ~m3u.hasStreams
    \/ m3u.streams = <<>>

\* !m3u || !m3u.meta || !m3u.meta.streams || !m3u.meta.streams[0]
Unusable(m3u) ==
    \/ m3u.kind # "meta"
    \/ ~m3u.hasStreams
    \/ m3u.streams = <<>>
    \/ m3u.streams[1] = "null"

\* m3u.meta.genres?.[0] || ''
PrimaryGenre(m3u) ==
    IF ~m3u.hasGenres \/ m3u.genres = <<>> THEN "" ELSE m3u.genres[1]

\* getChannelM3u as a function of the replies its attempts receive: the value
\* returned, the number of attempts made and the delays awaited, in order.
RECURSIVE RetryLoop(_, _, _, _)
RetryLoop(replies, retries, attempt, waits) ==
    IF attempt > retries
    THEN [result |-> Null, attempts |-> attempt - 1, waits |-> waits]
    ELSE IF replies[attempt].ok
    THEN [result |-> replies[attempt].json, attempts |-> attempt, waits |-> waits]
    ELSE RetryLoop(replies, retries, attempt + 1,
                   IF attempt < retries
                   THEN Append(waits, BackoffMs * attempt)
                   ELSE waits)

GetChannelM3u(replies, retries) == RetryLoop(replies, retries, 1, <<>>)

\* ------------------------------------------------------------ playlist text

\* A playlist text is the list of its lines (joined with "\n" in the code).
Header == <<"#EXTM3U">>

\* `#EXTINF:-1 tvg-id="${tvgId}" tvg-logo="${logo}" group-title="${genre}",${name}\n${url}`
EntryLines(tvgId, logo, genre, name, url) ==
    << <<"#EXTINF:-1", tvgId, logo, genre, name>>, <<url>> >>

\* A filter that looks for the genre anywhere in the genre list.
M3UEntryAnyGenre(m3u, filterSports) ==
    IF Unusable(m3u) THEN <<>>
    ELSE IF filterSports /\ (\A g \in 1..Len(m3u.genres) : ToLower(m3u.genres[g]) # "sports")
    THEN <<>>
    ELSE EntryLines(m3u.tvgId, m3u.logo, PrimaryGenre(m3u), <<m3u.name>>, m3u.streams[1])

\* The results.forEach of buildM3U: the lines pushed for one result.
M3UEntry(m3u, filterSports) ==
    IF Unusable(m3u) THEN <<>>
    ELSE IF filterSports /\ ToLower(PrimaryGenre(m3u)) # "sports" THEN <<>>
    ELSE EntryLines(m3u.tvgId, m3u.logo, PrimaryGenre(m3u), <<m3u.name>>, m3u.streams[1])

RECURSIVE M3UEntries(_, _)
M3UEntries(results, filterSports) ==
    IF results = <<>> THEN <<>>
    ELSE M3UEntry(Head(results), filterSports) \o M3UEntries(Tail(results), filterSports)

\* buildM3U once Promise.all has resolved to `results` (in catalog order).
BuildM3U(results, filterSports) == <<Header>> \o M3UEntries(results, filterSports)

\* ------------------------------------------------- multi-region sports build

\* The allChannels Map: its values in insertion order, keyed by tvgId.
MapHas(all, id) == \E i \in 1..Len(all) : all[i].tvgId = id

\* Map.prototype.set: an existing key keeps its position.
MapSet(all, ch) ==
    IF MapHas(all, ch.tvgId)
    THEN [i \in 1..Len(all) |-> IF all[i].tvgId = ch.tvgId THEN ch ELSE all[i]]
    ELSE Append(all, ch)

\* The merge without `|| region === 'usa'`: the first occurrence always wins.
MergeResultFirstWins(all, m3u, region) ==
    IF Unusable(m3u) THEN all
    ELSE IF ToLower(PrimaryGenre(m3u)) # "sports" THEN all
    ELSE IF ~MapHas(all, m3u.tvgId)
    THEN MapSet(all, [tvgId |-> m3u.tvgId, logo |-> m3u.logo,
                      genre |-> PrimaryGenre(m3u),
                      name |-> <<m3u.name, ToUpper(region)>>,
                      url |-> m3u.streams[1], region |-> region])
    ELSE all

\* The results.forEach of buildMultiRegionSportsM3U for one result of `region`.
MergeResult(all, m3u, region) ==
    IF Unusable(m3u) THEN all
    ELSE IF ToLower(PrimaryGenre(m3u)) # "sports" THEN all
    ELSE IF ~MapHas(all, m3u.tvgId) \/ region = "usa"
    THEN MapSet(all, [tvgId |-> m3u.tvgId, logo |-> m3u.logo,
                      genre |-> PrimaryGenre(m3u),
                      name |-> <<m3u.name, ToUpper(region)>>,
                      url |-> m3u.streams[1], region |-> region])
    ELSE all

RECURSIVE MergeRegion(_, _, _)
MergeRegion(all, results, region) ==
    IF results = <<>> THEN all
    ELSE MergeRegion(MergeResult(all, Head(results), region), Tail(results), region)

RECURSIVE MapLines(_)
MapLines(all) ==
    IF all = <<>> THEN <<>>
    ELSE EntryLines(Head(all).tvgId, Head(all).logo, Head(all).genre,
                    Head(all).name, Head(all).url) \o MapLines(Tail(all))

\* allChannels.forEach(...push...); return m3uEntries.join("\n")
RenderAll(all) == <<Header>> \o MapLines(all)

\* ================================================================== server

VARIABLES
    cache,        \* the cache object, entries in insertion order
    now,          \* Date.now(), in ms since local midnight of the start day
    nextRefresh,  \* the instant the refresh timer is due
    tasks,        \* the requests received and the refreshes started, in order
    last          \* the task that ended most recently, as it ended

\* ------------------------------------------------------------ the upstream

\* The catalog the upstream holds for a region.
CatalogOf(region) ==
    IF region \in validRegions THEN <<"c1">> ELSE <<"c2">>

\* The metadata the upstream holds for a channel.
MetaOf(ch) ==
    IF ch = "c1"
    THEN Json("meta", "t1", "Ch1", TRUE, <<"Sports">>, TRUE, <<"u1">>)
    ELSE Json("meta", "t2", "Ch2", TRUE, <<"News">>, TRUE, <<"u2">>)

\* What a catalog request can come back with: "fail" is a network error or a
\* non-2xx status, "bad" a 2xx body without a metas array, "ok" the catalog.
CatalogOutcomes == {"fail", "bad", "ok"}

\* What the attempts of one channel fetch can receive: an answer at once, or a
\* failure every time.
ReplyScripts(ch) ==
    { <<OkReply(MetaOf(ch))>>, <<FailReply, FailReply, FailReply>> }

\* ------------------------------------------------------------------ inputs

\* The /playlist requests sent: <<apikey, region, refresh>>.
PlaylistInputs ==
    { << <<"k">>, "usa", NoParam >>,
      << <<"k">>, "usa", "1" >>,
      << <<"k">>, "usa", "" >>,
      << <<"k", "sports">>, "usa", NoParam >>,
      << NoKey, "usa", NoParam >>,
      << <<"k">>, "xx", "1" >>,
      << <<"k">>, NoParam, NoParam >> }

\* The /sports-playlist requests sent: <<apikey, regions, refresh>>, regions as its
\* comma-split token list (<<"">> for `regions=`, the empty string), <<>> when the
\* parameter is not supplied.
SportsInputs ==
    { << <<"k">>, <<>>, NoParam >>,
      << <<"k">>, <<"">>, NoParam >>,
      << <<"k">>, <<>>, "1" >>,
      << <<"k">>, <<>>, "" >>,
      << <<"k">>, <<"xx", " uk">>, NoParam >>,
      << <<"k">>, <<"xx">>, "1" >>,
      << NoKey, <<>>, NoParam >> }

StartTime == 5 * 1000
TickStep == 24 * HOUR

\* ------------------------------------------------------------------- tasks

ErrorBody(msg) == << <<msg>> >>
NoBody == <<>>

\* A task is one run of a request handler or of a refresh pass's fetchAndCache
\* call.  pc is where it waits: "catalog" for the reply to a catalog request,
\* "channels" for Promise.all over the channel fetches; "done" once it is over.
\*   key      cacheKey of the handler; for a refresh, the key being refreshed
\*   region   the region of the catalog request in flight
\*   t0       `const now = Date.now()` of the handler
\*   idx, all the position in regionList and the allChannels Map (sports build)
\*   calls    upstream requests issued so far (catalog and channel attempts)
\*   touched  whether the handler has read or written the cache
\*   hit      whether the response was served from a fresh entry
\*   fails    the catalog requests of the task that failed
\*   tokens   the regions parameter of /sports-playlist as received
Task(kind, apikey, region, regions, refresh, key, t) ==
    [kind |-> kind, apikey |-> apikey, region |-> region, regions |-> regions,
     tokens |-> <<>>, refresh |-> refresh, key |-> key, pc |-> "start", idx |-> 0, all |-> <<>>,
     t0 |-> t, catalog |-> <<>>, status |-> 0, body |-> NoBody,
     calls |-> 0, hit |-> FALSE, touched |-> FALSE, fails |-> 0]

\* No task has ended yet.
NoTask == [Task("none", NoKey, NoParam, <<>>, NoParam, <<>>, 0) EXCEPT !.pc = "done"]

\* What `tasks` keeps of a task that is over.
Retired(t) == [Task(t.kind, NoKey, NoParam, <<>>, NoParam, <<>>, 0) EXCEPT !.pc = "done"]

\* res.status(code).send(body): the handler is over.
Respond(t, code, body) == [t EXCEPT !.pc = "done", !.status = code, !.body = body]

\* fetch(.../catalog/tv/${region}.json) issued; the task waits for the reply.
AwaitCatalog(t, region) ==
    [t EXCEPT !.pc = "catalog", !.region = region, !.calls = @ + 1]

\* The 400 of either handler.
Reject(t, msg) == Respond(t, 400, ErrorBody(msg))

\* return res.type("text/plain").send(cache[cacheKey].m3u), on a fresh entry.
ServeCached(t, c) ==
    Respond([t EXCEPT !.hit = TRUE, !.touched = TRUE], 200, CacheGet(c, t.key).m3u)

\* The validation without the membership test.
PlaylistInvalidNoMembership(apikey, region) ==
    apikey = NoKey \/ region = NoParam

\* !apikey || !region || !validRegions.includes(region)
PlaylistInvalid(apikey, region) ==
    apikey = NoKey \/ region = NoParam \/ region \notin validRegions

\* app.get("/playlist") up to its first await.
PlaylistStart(apikey, region, refresh) ==
    LET t == Task("playlist", apikey, region, <<>>, refresh,
                  IF PlaylistInvalid(apikey, region) THEN <<>>
                  ELSE PlainKey(apikey, region), now)
    IN  IF PlaylistInvalid(apikey, region)
        THEN Reject(t, "Error: Missing or invalid parameters")
        ELSE IF CacheHit(cache, t.key, refresh, now)
        THEN ServeCached(t, cache)
        ELSE AwaitCatalog([t EXCEPT !.touched = TRUE], region)

\* `if (regions)` is not taken: the parameter is undefined or the empty string.
RegionsFalsy(tokens) == tokens = <<>> \/ tokens = <<"">>

\* A regionList that keeps every supplied token.
RegionListUnfiltered(tokens) ==
    IF RegionsFalsy(tokens) THEN <<"usa">> ELSE [i \in 1..Len(tokens) |-> Trim(tokens[i])]

\* The regionList of /sports-playlist: the default when regions is falsy.
RegionList(tokens) == IF RegionsFalsy(tokens) THEN <<"usa">> ELSE ParseRegions(tokens)

\* app.get("/sports-playlist") up to its first await.
SportsStart(apikey, tokens, refresh) ==
    LET list == RegionList(tokens)
        t == [Task("sports", apikey, NoParam, list, refresh,
                   IF apikey = NoKey \/ list = <<>> THEN <<>>
                   ELSE MultiKey(apikey, list), now) EXCEPT !.tokens = tokens]
    IN  IF apikey = NoKey
        THEN Reject(t, "Error: Missing apikey parameter")
        ELSE IF list = <<>>
        THEN Reject(t, "Error: No valid regions provided")
        ELSE IF CacheHit(cache, t.key, refresh, now)
        THEN ServeCached(t, cache)
        ELSE AwaitCatalog([t EXCEPT !.idx = 1, !.touched = TRUE], list[1])

\* The tasks that are not over.
Active == {i \in 1..Len(tasks) : tasks[i].pc # "done"}

\* A request arrives and its handler runs up to its first await, or to its end.
Arrive(t) ==
    /\ Len(tasks) < MaxTasks
    /\ Cardinality(Active) < MaxActive
    /\ tasks' = Append(tasks, IF t.pc = "done" THEN Retired(t) ELSE t)
    /\ last' = IF t.pc = "done" THEN t ELSE last
    /\ UNCHANGED <<cache, now, nextRefresh>>

PlaylistRequest ==
    \E in \in PlaylistInputs : Arrive(PlaylistStart(in[1], in[2], in[3]))

SportsRequest ==
    \E in \in SportsInputs : Arrive(SportsStart(in[1], in[2], in[3]))

\* Task i moves on to u.
Continue(i, u) ==
    /\ tasks' = [tasks EXCEPT ![i] = IF u.pc = "done" THEN Retired(u) ELSE u]
    /\ last' = IF u.pc = "done" THEN u ELSE last

\* --------------------------------------------------------- fetchAndCache

\* const cacheKey = sportsOnly ? `${apikey}_${region}_sports` : `${apikey}_${region}`
FetchAndCacheKey(apikey, region, sportsOnly) ==
    IF sportsOnly THEN SportsOnlyKey(apikey, region) ELSE PlainKey(apikey, region)

\* A catch block that drops the entry it could not rebuild.
CatchFetchErrorEvicts(c, apikey, region) ==
    SelectSeq(c, LAMBDA e : e.key # PlainKey(apikey, region))

\* The catch block of fetchAndCache: the error is logged, the cache is not touched.
CatchFetchError(c, apikey, region) == c

\* cache[cacheKey] = { m3u, timestamp: Date.now() } after buildM3U.
StoreBuilt(c, apikey, region, results, ts) ==
    CachePut(c, FetchAndCacheKey(apikey, region, FALSE), BuildM3U(results, FALSE), ts)

\* A handler that answers 500 whenever its own rebuild failed.
PlaylistFinishOwnBuild(t, c) ==
    IF CacheHas(c, t.key) /\ t.fails = 0
    THEN Respond(t, 200, CacheGet(c, t.key).m3u)
    ELSE Respond(t, 500, ErrorBody("Unable to generate playlist"))

\* A handler that sends nothing when the cache has no entry for its key.
PlaylistFinishSilentOnMiss(t, c) ==
    IF CacheHas(c, t.key)
    THEN Respond(t, 200, CacheGet(c, t.key).m3u)
    ELSE [t EXCEPT !.pc = "hung"]

\* /playlist after `await fetchAndCache(apikey, region)`.
PlaylistFinish(t, c) ==
    IF CacheHas(c, t.key)
    THEN Respond(t, 200, CacheGet(c, t.key).m3u)
    ELSE Respond(t, 500, ErrorBody("Unable to generate playlist"))

\* The task once its fetchAndCache call has returned, the cache being c.
AfterFetchAndCache(t, c) ==
    IF t.kind = "playlist" THEN PlaylistFinish(t, c) ELSE [t EXCEPT !.pc = "done"]

\* ------------------------------------------------- /sports-playlist, the rest

\* cache[cacheKey] = { m3u: sportsM3u, timestamp: now }
StoreSports(c, t) == CachePut(c, t.key, RenderAll(t.all), t.t0)

\* The end of one iteration of `for (const region of regions)`: the next region's
\* catalog is requested, or the build returns, the result is cached and sent.
\* The build catches every upstream failure inside the loop, so the handler's own
\* catch (the 500 of line 200) is not reached by any upstream reply.
SportsAdvance(t) ==
    IF t.idx < Len(t.regions)
    THEN AwaitCatalog([t EXCEPT !.idx = @ + 1], t.regions[t.idx + 1])
    ELSE Respond(t, 200, RenderAll(t.all))

SportsCache(c, t) == IF t.idx < Len(t.regions) THEN c ELSE StoreSports(c, t)

\* ---------------------------------------------------------- upstream replies

\* Promise.all(channels.map(ch => getChannelM3u(ch.id, apikey))) under `scripts`.
Fetched(catalog, scripts) ==
    [i \in 1..Len(catalog) |-> GetChannelM3u(scripts[i], DefaultRetries)]

RECURSIVE SumAttempts(_)
SumAttempts(fs) == IF fs = <<>> THEN 0 ELSE Head(fs).attempts + SumAttempts(Tail(fs))

\* The reply to a catalog request arrives.
CatalogReply(i) ==
    /\ tasks[i].pc = "catalog"
    /\ \E outcome \in CatalogOutcomes :
          LET t == IF outcome = "ok" THEN tasks[i]
                   ELSE [tasks[i] EXCEPT !.fails = @ + 1] IN
          IF outcome = "ok"
          THEN /\ Continue(i, [t EXCEPT !.pc = "channels",
                                        !.catalog = CatalogOf(t.region),
                                        !.calls = @ + Len(CatalogOf(t.region))])
               /\ cache' = cache
          ELSE IF t.kind = "sports"
          THEN /\ cache' = SportsCache(cache, t)
               /\ Continue(i, SportsAdvance(t))
          ELSE /\ cache' = CatchFetchError(cache, t.apikey, t.region)
               /\ Continue(i, AfterFetchAndCache(t, cache'))
    /\ UNCHANGED <<now, nextRefresh>>

\* Every channel fetch of the task's catalog has settled.
ChannelsReply(i) ==
    /\ tasks[i].pc = "channels"
    /\ \E scripts \in [1..Len(tasks[i].catalog) ->
                          UNION {ReplyScripts(ch) : ch \in {"c1", "c2"}}] :
          /\ \A j \in 1..Len(tasks[i].catalog) :
                scripts[j] \in ReplyScripts(tasks[i].catalog[j])
          /\ LET fs == Fetched(tasks[i].catalog, scripts)
                 results == [j \in 1..Len(fs) |-> fs[j].result]
                 t == [tasks[i] EXCEPT !.calls = @ + SumAttempts(fs) - Len(fs),
                                       !.catalog = <<>>]
             IN  IF t.kind = "sports"
                 THEN LET u == [t EXCEPT !.all = MergeRegion(t.all, results, t.region)]
                      IN  /\ cache' = SportsCache(cache, u)
                          /\ Continue(i, SportsAdvance(u))
                 ELSE /\ cache' = StoreBuilt(cache, t.apikey, t.region, results, now)
                      /\ Continue(i, AfterFetchAndCache(t, cache'))
    /\ UNCHANGED <<now, nextRefresh>>

\* ------------------------------------------------------------ daily refresh

\* new Date(y, m, d + 1, 0, 0, 5) - now, for now = t ms after local midnight of day 0.
MillisTillMidnight(t) == ((t \div DAY) + 1) * DAY + 5000 - t

\* One iteration of Object.keys(cache).forEach: fetchAndCache(apikey, region) up to
\* its first await.
RefreshStart(key) ==
    LET sk == SplitKey(key) IN
    AwaitCatalog(Task("refresh", sk.apikey, sk.region, <<>>, NoParam, key, 0), sk.region)

\* The timer callback: one refresh pass.
RefreshPass ==
    /\ now = nextRefresh
    /\ Len(tasks) + Len(cache) <= MaxTasks
    /\ Cardinality(Active) + Len(cache) <= MaxActive
    /\ tasks' = tasks \o [i \in 1..Len(cache) |-> RefreshStart(CacheKeys(cache)[i])]
    /\ nextRefresh' = nextRefresh + REFRESH_INTERVAL
    /\ UNCHANGED <<cache, now, last>>

\* Time passes, up to the next instant the timer is due.
Tick ==
    /\ now # nextRefresh
    /\ now < StartTime + MaxTicks * TickStep
    /\ now' = IF now < nextRefresh /\ nextRefresh <= now + TickStep
              THEN nextRefresh ELSE now + TickStep
    /\ UNCHANGED <<cache, nextRefresh, tasks, last>>

\* ================================================================= buildM3U

VARIABLES
    bCatalog,   \* catalog.metas, as the list of channel ids
    bFilter,    \* filterSports
    bRetries,   \* the retries parameter of getChannelM3u
    bFetch,     \* the getChannelM3u call of each channel
    bSettled,   \* the channels in the order their calls returned
    bOut        \* the text buildM3U returned; <<>> before it returns

ChannelIds == {"c1", "c2"}

\* The tvgId of the metadata the upstream holds for a channel.
TvgIdOf(ch) == IF ch = "c1" THEN "t1" ELSE "t2"

\* The bodies a 2xx metadata reply for a channel can carry.
Bodies(ch) ==
    { Null,
      Json("nometa", TvgIdOf(ch), ch, FALSE, <<>>, FALSE, <<>>),
      Json("meta", TvgIdOf(ch), ch, TRUE, <<"Sports">>, FALSE, <<>>),
      Json("meta", TvgIdOf(ch), ch, TRUE, <<"Sports">>, TRUE, <<>>),
      Json("meta", TvgIdOf(ch), ch, TRUE, <<"Sports">>, TRUE, <<"null", "u9">>),
      Json("meta", TvgIdOf(ch), ch, TRUE, <<"SPORTS", "News">>, TRUE, <<"u1", "u2">>),
      Json("meta", TvgIdOf(ch), ch, TRUE, <<"News", "Sports">>, TRUE, <<"u1">>),
      Json("meta", TvgIdOf(ch), ch, FALSE, <<>>, TRUE, <<"u1">>) }

RECURSIVE SeqsUpTo(_, _)
SeqsUpTo(S, n) ==
    IF n = 0 THEN {<<>>}
    ELSE LET shorter == SeqsUpTo(S, n - 1) IN
         shorter \cup {Append(q, x) : q \in shorter, x \in S}

\* getChannelM3u at its first fetch: attempt is the loop variable, waits the
\* delays awaited so far, pc where the call is: "fetch" awaiting the reply to
\* attempt number `attempt`, "delay" awaiting the timer, "returned" once over;
\* exhausted tells that it returned at line 40, after the loop.
FirstAttempt ==
    [pc |-> "fetch", attempt |-> 1, waits |-> <<>>, result |-> Null, exhausted |-> FALSE]

\* return await response.json()
Returned(f, json) == [f EXCEPT !.pc = "returned", !.result = json]

\* The catch block delaying after every failed attempt (`attempt <= retries`).
AttemptFailedAlwaysDelays(f, retries) ==
    [f EXCEPT !.pc = "delay", !.waits = Append(@, BackoffMs * f.attempt)]

\* The catch block of getChannelM3u, and the loop's exit after the last attempt.
AttemptFailed(f, retries) ==
    IF f.attempt < retries
    THEN [f EXCEPT !.pc = "delay", !.waits = Append(@, BackoffMs * f.attempt)]
    ELSE [f EXCEPT !.pc = "returned", !.result = Null, !.exhausted = TRUE]

\* The delay is over: attempt++ and the next fetch is issued.
NextAttempt(f) == [f EXCEPT !.pc = "fetch", !.attempt = @ + 1]

AttemptOk(i) ==
    /\ bFetch[i].pc = "fetch"
    /\ \E json \in Bodies(bCatalog[i]) :
          bFetch' = [bFetch EXCEPT ![i] = Returned(@, json)]
    /\ bSettled' = Append(bSettled, i)
    /\ UNCHANGED <<bCatalog, bFilter, bRetries, bOut>>

AttemptFail(i) ==
    /\ bFetch[i].pc = "fetch"
    /\ bFetch' = [bFetch EXCEPT ![i] = AttemptFailed(@, bRetries)]
    /\ bSettled' = IF bFetch'[i].pc = "returned" THEN Append(bSettled, i) ELSE bSettled
    /\ UNCHANGED <<bCatalog, bFilter, bRetries, bOut>>

DelayElapsed(i) ==
    /\ bFetch[i].pc = "delay"
    /\ bFetch' = [bFetch EXCEPT ![i] = NextAttempt(@)]
    /\ UNCHANGED <<bCatalog, bFilter, bRetries, bSettled, bOut>>

\* Results gathered in the order the calls returned.
ResultsAsSettled == [k \in 1..Len(bSettled) |-> bFetch[bSettled[k]].result]

\* Promise.all resolves to the results in the order of `channels`.
Results == [i \in 1..Len(bFetch) |-> bFetch[i].result]

\* Promise.all has resolved: results.forEach and the join.
Render ==
    /\ bOut = <<>>
    /\ \A i \in 1..Len(bFetch) : bFetch[i].pc = "returned"
    /\ bOut' = BuildM3U(Results, bFilter)
    /\ UNCHANGED <<bCatalog, bFilter, bRetries, bFetch, bSettled>>

\* ================================================ buildMultiRegionSportsM3U

VARIABLES
    mRegions,   \* the regions argument
    mIdx,       \* the position of the for loop in regions
    mPc,        \* "catalog" | "channels" | "returned"
    mCatalog,   \* the ids of catalogData.metas of the current region
    mAll,       \* the allChannels Map, values in insertion order
    mProduced,  \* the <<region, tvgId>> of every result that passed the filters
    mSkipped,   \* the positions in regions whose catalog request failed
    mOut        \* the text returned; <<>> before the build returns

MultiRegions == {"usa", "uk", "ca"}

\* What getChannelM3u can return for a channel in this build.
MultiResults(ch) ==
    IF ch = "c1"
    THEN { Null,
           Json("meta", TvgIdOf(ch), ch, TRUE, <<"Sports">>, TRUE, <<"u1">>),
           Json("meta", TvgIdOf(ch), ch, TRUE, <<"News", "Sports">>, TRUE, <<"u1">>) }
    ELSE { Null,
           Json("meta", TvgIdOf(ch), ch, TRUE, <<"SPORTS", "News">>, TRUE, <<"u1">>),
           Json("meta", TvgIdOf(ch), ch, FALSE, <<>>, TRUE, <<"u1">>) }

\* What Promise.all can resolve to for a catalog: one result per channel, in order.
RECURSIVE MultiChoices(_)
MultiChoices(catalog) ==
    IF catalog = <<>> THEN {<<>>}
    ELSE {<<r>> \o rest : r \in MultiResults(Head(catalog)),
                          rest \in MultiChoices(Tail(catalog))}

\* The results of a region that reach the allChannels test of line 115.
Passing(results, region) ==
    { <<region, results[j].tvgId>> : j \in
        {k \in 1..Len(results) :
            /\ ~Unusable(results[k])
            /\ ToLower(PrimaryGenre(results[k])) = "sports"} }

\* The loop moves to the next region, or the build returns.
MultiAdvance(all) ==
    /\ mIdx' = mIdx + 1
    /\ mAll' = all
    /\ mCatalog' = <<>>
    /\ IF mIdx < Len(mRegions)
       THEN mPc' = "catalog" /\ mOut' = mOut
       ELSE mPc' = "returned" /\ mOut' = RenderAll(all)

\* A catalog failure that ends the build with what was gathered so far.
MultiCatalogFailAborts ==
    /\ mPc = "catalog"
    /\ mSkipped' = mSkipped \cup {mIdx}
    /\ mIdx' = mIdx + 1
    /\ mPc' = "returned"
    /\ mOut' = RenderAll(mAll)
    /\ UNCHANGED <<mRegions, mProduced, mAll, mCatalog>>

\* The catalog request of the current region fails (`continue`, or the catch).
MultiCatalogFail ==
    /\ mPc = "catalog"
    /\ mSkipped' = mSkipped \cup {mIdx}
    /\ MultiAdvance(mAll)
    /\ UNCHANGED <<mRegions, mProduced>>

\* The catalog of the current region arrives and the channel fetches are issued.
MultiCatalogOk ==
    /\ mPc = "catalog"
    /\ \E cat \in SeqsUpTo(ChannelIds, MaxChannels) : mCatalog' = cat
    /\ mPc' = "channels"
    /\ UNCHANGED <<mRegions, mIdx, mAll, mProduced, mSkipped, mOut>>

\* Promise.all of the current region resolves: results.forEach.
MultiChannels ==
    /\ mPc = "channels"
    /\ \E results \in MultiChoices(mCatalog) :
          /\ mProduced' = mProduced \cup Passing(results, mRegions[mIdx])
          /\ MultiAdvance(MergeRegion(mAll, results, mRegions[mIdx]))
    /\ UNCHANGED <<mRegions, mSkipped>>

\* ====================================================== scheduleDailyRefresh

VARIABLES
    sStart,     \* `const now = new Date()` of scheduleDailyRefresh
    sNow,       \* the local clock
    sTimer,     \* "timeout": the setTimeout is pending; "interval": the setInterval
    sDue,       \* the instant the pending timer is due
    sFired      \* the instants at which a refresh pass ran, in order

\* The local times at which the process is started, in ms after midnight of
\* day 0: midnight, inside the first five seconds, the edges of 00:00:05, noon,
\* and the last millisecond of the day.
StartTimes ==
    {0, 1, 2000, 4999, 5000, 5001, 6 * HOUR, 12 * HOUR, 18 * HOUR, DAY - 5000, DAY - 1}

\* The steps by which the clock is observed between two timer expiries.
SchedStep == 8 * HOUR

\* scheduleDailyRefresh(): the one-shot timer is set.
ScheduleDailyRefresh(t) ==
    [start |-> t, timer |-> "timeout", due |-> t + MillisTillMidnight(t)]

\* The setTimeout callback: the first pass, and setInterval(..., 24 h).
TimeoutFires ==
    /\ sTimer = "timeout"
    /\ sNow = sDue
    /\ Len(sFired) < MaxPasses
    /\ sFired' = Append(sFired, sNow)
    /\ sTimer' = "interval"
    /\ sDue' = sNow + REFRESH_INTERVAL
    /\ UNCHANGED <<sStart, sNow>>

\* The setInterval callback: a later pass; the interval re-arms itself.
IntervalFires ==
    /\ sTimer = "interval"
    /\ sNow = sDue
    /\ Len(sFired) < MaxPasses
    /\ sFired' = Append(sFired, sNow)
    /\ sDue' = sDue + REFRESH_INTERVAL
    /\ UNCHANGED <<sStart, sNow, sTimer>>

\* Time passes, up to the instant the pending timer is due.
SchedTick ==
    /\ sNow < sDue
    /\ sNow' = IF sDue <= sNow + SchedStep THEN sDue ELSE sNow + SchedStep
    /\ UNCHANGED <<sStart, sTimer, sDue, sFired>>

\* ------------------------------------------------------------ specification

serverVars == <<cache, now, nextRefresh, tasks, last>>
buildVars == <<bCatalog, bFilter, bRetries, bFetch, bSettled, bOut>>
multiVars == <<mRegions, mIdx, mPc, mCatalog, mAll, mProduced, mSkipped, mOut>>
schedVars == <<sStart, sNow, sTimer, sDue, sFired>>
vars == <<serverVars, buildVars, multiVars, schedVars>>

ServerInit ==
    /\ cache = <<>>
    /\ now = StartTime
    /\ nextRefresh = StartTime + MillisTillMidnight(StartTime)
    /\ tasks = <<>>
    /\ last = NoTask

\* No buildM3U call is being followed: one over an empty catalog has returned.
BuildIdle ==
    /\ bCatalog = <<>>
    /\ bFilter = FALSE
    /\ bRetries = DefaultRetries
    /\ bFetch = <<>>
    /\ bSettled = <<>>
    /\ bOut = BuildM3U(<<>>, FALSE)

\* No buildMultiRegionSportsM3U call is being followed.
MultiIdle ==
    /\ mRegions = <<>>
    /\ mIdx = 0
    /\ mPc = "returned"
    /\ mCatalog = <<>>
    /\ mAll = <<>>
    /\ mProduced = {}
    /\ mSkipped = {}
    /\ mOut = <<>>

\* The scheduler is not being followed on its own.
SchedIdle ==
    /\ sStart = StartTime
    /\ sNow = StartTime
    /\ sTimer = "timeout"
    /\ sDue = StartTime + MillisTillMidnight(StartTime)
    /\ sFired = <<>>

\* The server after construction.
Init == ServerInit /\ BuildIdle /\ MultiIdle /\ SchedIdle

Next ==
    \/ PlaylistRequest /\ UNCHANGED <<buildVars, multiVars, schedVars>>
    \/ SportsRequest /\ UNCHANGED <<buildVars, multiVars, schedVars>>
    \/ \E i \in 1..Len(tasks) : CatalogReply(i) /\ UNCHANGED <<buildVars, multiVars, schedVars>>
    \/ \E i \in 1..Len(tasks) : ChannelsReply(i) /\ UNCHANGED <<buildVars, multiVars, schedVars>>
    \/ RefreshPass /\ UNCHANGED <<buildVars, multiVars, schedVars>>
    \/ Tick /\ UNCHANGED <<buildVars, multiVars, schedVars>>

Spec == Init /\ [][Next]_vars

\* The server when every upstream call completes: a task waiting for a reply
\* gets it. (The reply to the channel fetches stands for the whole Promise.all,
\* whose getChannelM3u calls each end after at most `retries` attempts.)
UpstreamCompletes ==
    \A i \in 1..MaxTasks :
        /\ WF_vars(i <= Len(tasks) /\ CatalogReply(i)
                       /\ UNCHANGED <<buildVars, multiVars, schedVars>>)
        /\ WF_vars(i <= Len(tasks) /\ ChannelsReply(i)
                       /\ UNCHANGED <<buildVars, multiVars, schedVars>>)

\* The server receiving MaxRequests requests and the replies to its upstream
\* calls, over a stretch in which the clock reading does not change and no
\* refresh pass is due.
NextLive ==
    \/ Len(tasks) < MaxRequests /\ PlaylistRequest
         /\ UNCHANGED <<buildVars, multiVars, schedVars>>
    \/ Len(tasks) < MaxRequests /\ SportsRequest
         /\ UNCHANGED <<buildVars, multiVars, schedVars>>
    \/ \E i \in 1..Len(tasks) : CatalogReply(i) /\ UNCHANGED <<buildVars, multiVars, schedVars>>
    \/ \E i \in 1..Len(tasks) : ChannelsReply(i) /\ UNCHANGED <<buildVars, multiVars, schedVars>>

SpecLive == Init /\ [][NextLive]_vars /\ UpstreamCompletes

\* buildM3U(catalog, apikey, filterSports) up to its await: every channel's
\* getChannelM3u call has issued its first fetch.
InitBuild ==
    /\ ServerInit /\ MultiIdle /\ SchedIdle
    /\ bCatalog \in SeqsUpTo(ChannelIds, MaxChannels)
    /\ bFilter \in BOOLEAN
    /\ bRetries \in {1, DefaultRetries}
    /\ bFetch = [i \in 1..Len(bCatalog) |-> FirstAttempt]
    /\ bSettled = <<>>
    /\ bOut = <<>>

NextBuild ==
    \/ \E i \in 1..Len(bFetch) : AttemptOk(i) /\ UNCHANGED <<serverVars, multiVars, schedVars>>
    \/ \E i \in 1..Len(bFetch) : AttemptFail(i) /\ UNCHANGED <<serverVars, multiVars, schedVars>>
    \/ \E i \in 1..Len(bFetch) : DelayElapsed(i) /\ UNCHANGED <<serverVars, multiVars, schedVars>>
    \/ Render /\ UNCHANGED <<serverVars, multiVars, schedVars>>

SpecBuild == InitBuild /\ [][NextBuild]_vars

\* buildMultiRegionSportsM3U(apikey, regions) up to its first await: the catalog
\* of the first region has been requested.
InitMulti ==
    /\ ServerInit /\ BuildIdle /\ SchedIdle
    /\ mRegions \in SeqsUpTo(MultiRegions, MaxRegions) \ {<<>>}
    /\ mIdx = 1
    /\ mPc = "catalog"
    /\ mCatalog = <<>>
    /\ mAll = <<>>
    /\ mProduced = {}
    /\ mSkipped = {}
    /\ mOut = <<>>

NextMulti ==
    \/ MultiCatalogFail /\ UNCHANGED <<serverVars, buildVars, schedVars>>
    \/ MultiCatalogOk /\ UNCHANGED <<serverVars, buildVars, schedVars>>
    \/ MultiChannels /\ UNCHANGED <<serverVars, buildVars, schedVars>>

SpecMulti == InitMulti /\ [][NextMulti]_vars

\* scheduleDailyRefresh() at process start, for each start time of day.
InitSched ==
    /\ ServerInit /\ BuildIdle /\ MultiIdle
    /\ sStart \in StartTimes
    /\ sNow = sStart
    /\ sTimer = ScheduleDailyRefresh(sStart).timer
    /\ sDue = ScheduleDailyRefresh(sStart).due
    /\ sFired = <<>>

NextSched ==
    \/ TimeoutFires /\ UNCHANGED <<serverVars, buildVars, multiVars>>
    \/ IntervalFires /\ UNCHANGED <<serverVars, buildVars, multiVars>>
    \/ SchedTick /\ UNCHANGED <<serverVars, buildVars, multiVars>>

SpecSched == InitSched /\ [][NextSched]_vars

\* Either build on its own: buildM3U over a catalog, or buildMultiRegionSportsM3U
\* over a region list.
InitFilter == InitBuild \/ InitMulti

NextFilter == NextBuild \/ NextMulti

SpecFilter == InitFilter /\ [][NextFilter]_vars

\* ================================================================== claims

\* The task a step of the server starts, if it starts a request: the handler's
\* record as it stands after the step.
Started == IF tasks'[Len(tasks')].pc = "done" THEN last' ELSE tasks'[Len(tasks')]

RequestArrives ==
    /\ Len(tasks') = Len(tasks) + 1
    /\ tasks'[Len(tasks')].kind \in {"playlist", "sports"}

\* C1: a valid request without forced refresh that finds a fresh entry (younger
\* than 24 h) under its cache key is answered with exactly that entry's text, 200,
\* issues no upstream request and leaves the cache as it is; so repeated such
\* requests return the same text as long as no rebuild replaces the entry.
C1_FreshHitServesCache ==
    [][ (/\ RequestArrives
         /\ Started.key # <<>>
         /\ Started.refresh = NoParam
         /\ CacheHas(cache, Started.key)
         /\ now - CacheGet(cache, Started.key).timestamp < 24 * 60 * 60 * 1000)
        => (/\ Started.pc = "done"
            /\ Started.status = 200
            /\ Started.body = CacheGet(cache, Started.key).m3u
            /\ Started.calls = 0
            /\ cache' = cache) ]_vars

C1_Witness ==
    /\ last.hit /\ last.status = 200 /\ last.calls = 0
    /\ last.kind = "sports" /\ last.refresh = NoParam

\* C2: every refresh in flight rebuilds the key it was started for: the key that
\* fetchAndCache will write with the refresh's apikey and region is that key.
C2_RefreshRebuildsItsKey ==
    \A i \in 1..Len(tasks) :
        (tasks[i].kind = "refresh" /\ tasks[i].pc # "done")
        => FetchAndCacheKey(tasks[i].apikey, tasks[i].region, FALSE) = tasks[i].key

\* C3: a fetchAndCache call (of /playlist or of a refresh pass) that ends on the
\* reply to its catalog request, that is with an upstream catalog error, leaves
\* every cache entry in place with its text and timestamp.
C3_FailedRebuildKeepsEntries ==
    [][ \A i \in 1..Len(tasks) :
          (/\ tasks[i].kind \in {"playlist", "refresh"}
           /\ tasks[i].pc = "catalog"
           /\ tasks'[i].pc = "done")
          => \A j \in 1..Len(cache) :
                /\ CacheHas(cache', cache[j].key)
                /\ CacheGet(cache', cache[j].key) = cache[j] ]_vars

C3_Witness ==
    /\ last.kind = "refresh" /\ last.fails = 1
    /\ CacheHas(cache, last.key)

\* C4: a /sports-playlist build in which the catalog request of every region
\* failed is answered with 500.
C4_SportsTotalFailureIs500 ==
    (/\ last.kind = "sports"
     /\ ~last.hit
     /\ last.regions # <<>>
     /\ last.fails = Len(last.regions))
    => last.status = 500

\* C5: a valid request that supplies the refresh parameter, whatever its value,
\* is not served from the cache: it issues a catalog request.
C5_SuppliedRefreshRebuilds ==
    (/\ last.kind \in {"playlist", "sports"}
     /\ last.status # 400
     /\ last.refresh # NoParam)
    => (~last.hit /\ last.calls >= 1)

\* C6: a /playlist request without apikey, without region or with a region outside
\* the valid set is answered 400, and its handler neither reads nor writes the
\* cache nor issues an upstream request.
C6_InvalidPlaylistIs400 ==
    (/\ last.kind = "playlist"
     /\ (\/ last.apikey = NoKey
         \/ last.region = NoParam
         \/ last.region \notin {"usa", "ca", "mx", "uk", "au", "cl", "fr", "it", "za", "nz", "ee"}))
    => (last.status = 400 /\ ~last.touched /\ last.calls = 0)

C6_Witness ==
    /\ last.kind = "playlist" /\ last.apikey # NoKey
    /\ last.region = "xx" /\ last.status = 400

\* C7: when a /playlist request that went through a rebuild is answered, the
\* answer is 500 if the cache holds no entry under its key at that moment, and
\* otherwise 200 with the text of that entry, also when its own rebuild failed.
C7_PlaylistAnswerAfterRebuild ==
    [][ \A i \in 1..Len(tasks) :
          (/\ tasks[i].kind = "playlist"
           /\ tasks[i].pc # "done"
           /\ tasks'[i].pc = "done")
          => IF CacheHas(cache', tasks[i].key)
             THEN /\ last'.status = 200
                  /\ last'.body = CacheGet(cache', tasks[i].key).m3u
             ELSE last'.status = 500 ]_vars

C7_Witness ==
    /\ last.kind = "playlist" /\ last.fails = 1
    /\ last.status = 200 /\ ~last.hit

\* The channels of the catalog whose metadata was fetched with a non-empty first
\* stream.
GoodChannels ==
    {i \in 1..Len(bFetch) :
        /\ ~bFetch[i].exhausted
        /\ bFetch[i].result.kind = "meta"
        /\ bFetch[i].result.hasStreams
        /\ Len(bFetch[i].result.streams) >= 1
        /\ bFetch[i].result.streams[1] # "null"}

\* C8: the text buildM3U returns starts with the header; every entry in it is the
\* line pair of a channel of the catalog whose metadata was fetched with a
\* non-empty first stream (none of a channel whose fetch ran out of retries or
\* whose stream list is missing or starts with an empty element); and without
\* the genre filter there is exactly one entry per such channel.
C8_OnlyAndAllGoodChannels ==
    bOut # <<>>
    => /\ bOut[1] = Header
       /\ Len(bOut) % 2 = 1
       /\ \A k \in 1..((Len(bOut) - 1) \div 2) :
             \E i \in GoodChannels :
                /\ bOut[2 * k][2] = TvgIdOf(bCatalog[i])
                /\ bOut[2 * k][5] = <<bCatalog[i]>>
                /\ bOut[2 * k + 1] = <<bFetch[i].result.streams[1]>>
       /\ ~bFilter => Len(bOut) = 1 + 2 * Cardinality(GoodChannels)

C8_Witness ==
    /\ bOut # <<>> /\ ~bFilter /\ Len(bCatalog) = 2 /\ Len(bOut) = 3
    /\ ~bFetch[1].exhausted /\ bFetch[2].exhausted /\ bRetries = 3

\* The EXTINF lines of a text that carry a tvg-id.
EntriesOf(text, id) == {k \in 1..Len(text) : k % 2 = 0 /\ text[k][2] = id}

\* C9: when the multi-region build has returned and a channel id was produced by
\* usa and by another requested region, the output holds exactly one entry for
\* that id: the one from usa, its name qualified with USA.
C9_PreferredRegionWins ==
    mPc = "returned"
    => \A id \in {"t1", "t2"} :
          (/\ <<"usa", id>> \in mProduced
           /\ \E r \in MultiRegions \ {"usa"} : <<r, id>> \in mProduced)
          => /\ Cardinality(EntriesOf(mOut, id)) = 1
             /\ \A k \in EntriesOf(mOut, id) : mOut[k][5][2] = "USA"
             /\ \A j \in 1..Len(mAll) : mAll[j].tvgId = id => mAll[j].region = "usa"

C9_Witness ==
    /\ mPc = "returned" /\ mRegions = <<"usa", "uk">>
    /\ <<"usa", "t1">> \in mProduced /\ <<"uk", "t1">> \in mProduced

\* The delays 500 ms * 1, ..., 500 ms * n.
Backoffs(n) == [k \in 1..n |-> 500 * k]

\* C10: a getChannelM3u call never starts more than `retries` attempts; every
\* attempt before the current one failed and was followed by a delay of 500 ms
\* times its number; a call that returned a reply did so at its first successful
\* attempt with no delay after it; a call whose attempts all failed made exactly
\* `retries` attempts, did not delay after the last one and returned null.
C10_RetryDiscipline ==
    \A i \in 1..Len(bFetch) :
        LET f == bFetch[i] IN
        /\ f.attempt \in 1..bRetries
        /\ f.pc = "fetch" => f.waits = Backoffs(f.attempt - 1)
        /\ f.pc = "delay" => (f.attempt < bRetries /\ f.waits = Backoffs(f.attempt))
        /\ (f.pc = "returned" /\ ~f.exhausted) => f.waits = Backoffs(f.attempt - 1)
        /\ f.exhausted => /\ f.pc = "returned"
                          /\ f.attempt = bRetries
                          /\ f.waits = Backoffs(bRetries - 1)
                          /\ f.result = Null

C10_Witness ==
    \E i \in 1..Len(bFetch) :
        /\ bFetch[i].exhausted /\ bFetch[i].attempt = 3
        /\ bFetch[i].waits = <<500, 1000>>

\* The next instant after t at which the local clock reads 00:00:05.
NextOccurrence(t) ==
    IF t % (24 * 60 * 60 * 1000) < 5000
    THEN (t \div (24 * 60 * 60 * 1000)) * (24 * 60 * 60 * 1000) + 5000
    ELSE ((t \div (24 * 60 * 60 * 1000)) + 1) * (24 * 60 * 60 * 1000) + 5000

\* C11: whatever the time of day the process starts at, the first refresh pass
\* runs at the next instant the local clock reads 00:00:05, and every later
\* pass runs exactly 24 h after the one before.
C11_FirstPassAtNextOccurrence ==
    /\ Len(sFired) >= 1 => sFired[1] = NextOccurrence(sStart)
    /\ \A k \in 2..Len(sFired) : sFired[k] = sFired[k - 1] + 24 * 60 * 60 * 1000

\* The spellings of the genre that equal "sports" when case is ignored.
SportsSpellings == {"sports", "Sports", "SPORTS"}

\* The results whose first genre is sports, among those with a usable stream.
SportsResults(results) ==
    {i \in 1..Len(results) :
        /\ results[i].kind = "meta"
        /\ results[i].hasStreams
        /\ Len(results[i].streams) >= 1
        /\ results[i].streams[1] # "null"
        /\ results[i].hasGenres
        /\ Len(results[i].genres) >= 1
        /\ results[i].genres[1] \in SportsSpellings}

\* C12: with the genre filter on, every entry of the text buildM3U returns carries
\* a group-title that is "sports" up to case, and there are exactly as many
\* entries as usable results whose first genre is sports (none for a result with
\* another first genre or without genres); every entry of the multi-region build
\* carries such a group-title as well.
C12_FilteredEntriesAreSports ==
    /\ (bOut # <<>> /\ bFilter)
       => /\ \A k \in 1..((Len(bOut) - 1) \div 2) : bOut[2 * k][4] \in SportsSpellings
          /\ (Len(bOut) - 1) \div 2 = Cardinality(SportsResults(Results))
    /\ \A j \in 1..Len(mAll) : mAll[j].genre \in SportsSpellings
    /\ mPc = "returned"
       => \A k \in 1..((Len(mOut) - 1) \div 2) : mOut[2 * k][4] \in SportsSpellings

C12_Witness ==
    /\ bFilter /\ Len(bOut) = 3 /\ bOut[2][4] = "SPORTS"
    /\ \E i \in 1..Len(bFetch) :
          /\ bFetch[i].result.hasStreams
          /\ bFetch[i].result.genres = <<"News", "Sports">>

\* The sports requests that carry an apikey, in flight or just answered.
SportsWithKey ==
    {tasks[i] : i \in {j \in 1..Len(tasks) : tasks[j].kind = "sports" /\ tasks[j].pc # "done"}}
    \cup (IF last.kind = "sports" /\ last.apikey # NoKey THEN {last} ELSE {})

\* The tokens of a regions parameter that are valid regions once trimmed, in order.
ValidTokens(tokens) ==
    SelectSeq([i \in 1..Len(tokens) |-> IF tokens[i] = " uk" THEN "uk" ELSE tokens[i]],
              LAMBDA r : r \in {"usa", "ca", "mx", "uk", "au", "cl", "fr", "it", "za", "nz", "ee"})

\* C13 as claimed: a /sports-playlist request with an apikey builds over usa when
\* regions is not supplied, over exactly the valid tokens when it is, and is
\* answered 400 without cache access or upstream call whenever regions was
\* supplied and no token of it is valid.
C13_SuppliedWithoutValidIs400 ==
    \A t \in SportsWithKey :
        /\ t.tokens = <<>> => t.regions = <<"usa">>
        /\ t.tokens # <<>> => t.regions = ValidTokens(t.tokens)
        /\ (t.tokens # <<>> /\ ValidTokens(t.tokens) = <<>>)
           => (t.pc = "done" /\ t.status = 400 /\ ~t.touched /\ t.calls = 0)

\* C13 as amended: the same, with an empty regions value (`regions=`) treated as
\* not supplied: it builds over usa; a non-empty value is filtered to its valid
\* tokens, the catalog requests go to those only, and a non-empty value without a
\* valid token is answered 400 without cache access or upstream call.
C13_NonEmptyWithoutValidIs400 ==
    \A t \in SportsWithKey :
        /\ t.tokens \in {<<>>, <<"">>} => t.regions = <<"usa">>
        /\ t.tokens \notin {<<>>, <<"">>} => t.regions = ValidTokens(t.tokens)
        /\ t.pc = "catalog" => \E k \in 1..Len(t.regions) : t.region = t.regions[k]
        /\ (t.tokens \notin {<<>>, <<"">>} /\ ValidTokens(t.tokens) = <<>>)
           => (t.pc = "done" /\ t.status = 400 /\ ~t.touched /\ t.calls = 0)

C13_Witness ==
    /\ last.kind = "sports" /\ last.tokens = <<"xx", " uk">>
    /\ last.regions = <<"uk">> /\ last.status = 200 /\ last.calls >= 1

\* The channels of the catalog that buildM3U emits an entry for: metadata fetched
\* with a non-empty first stream and, with the filter on, a first genre of sports.
Emitted ==
    SelectSeq([i \in 1..Len(bCatalog) |-> i],
              LAMBDA i : /\ i \in GoodChannels
                         /\ bFilter => /\ bFetch[i].result.hasGenres
                                       /\ Len(bFetch[i].result.genres) >= 1
                                       /\ bFetch[i].result.genres[1] \in SportsSpellings)

\* C14: whatever the order in which the channel fetches of a buildM3U call
\* returned, and after however many attempts each, the entries of the text are
\* those of the emitted channels in the order of the catalog: the k-th entry is
\* the name and first stream of the k-th emitted channel.
C14_EntriesInCatalogOrder ==
    bOut # <<>>
    => /\ Len(bOut) = 1 + 2 * Len(Emitted)
       /\ \A k \in 1..Len(Emitted) :
             /\ bOut[2 * k][5] = <<bCatalog[Emitted[k]]>>
             /\ bOut[2 * k][2] = TvgIdOf(bCatalog[Emitted[k]])
             /\ bOut[2 * k + 1] = <<bFetch[Emitted[k]].result.streams[1]>>

C14_Witness ==
    /\ bCatalog = <<"c1", "c2">> /\ bSettled = <<2, 1>>
    /\ bFetch[1].attempt = 3 /\ bFetch[2].attempt = 1
    /\ Len(bOut) = 5 /\ bOut[2][5] = <<"c1">> /\ bOut[4][5] = <<"c2">>

\* The qualifier the multi-region build appends to the names of a region.
RegionTag(r) == CASE r = "usa" -> "USA" [] r = "uk" -> "UK" [] r = "ca" -> "CA"

\* The regions whose results included a usable sports channel with a tvg-id.
ProducedBy(id) == {r \in MultiRegions : <<r, id>> \in mProduced}

\* C15: a failed catalog request ends only its own region: the build returns
\* after visiting every region of the list, and its text then holds, for every
\* tvg-id that some region with a catalog produced as a sports channel, exactly
\* one entry, qualified with a region that produced it, and no other entry.
C15_FailedRegionOnlySkipped ==
    /\ mPc # "returned" => mIdx \in 1..Len(mRegions)
    /\ mPc = "returned"
       => /\ mIdx = Len(mRegions) + 1
          /\ mSkipped \subseteq 1..Len(mRegions)
          /\ \A id \in {"t1", "t2"} :
                IF ProducedBy(id) = {}
                THEN EntriesOf(mOut, id) = {}
                ELSE /\ Cardinality(EntriesOf(mOut, id)) = 1
                     /\ \A k \in EntriesOf(mOut, id) :
                           \E r \in ProducedBy(id) : mOut[k][5][2] = RegionTag(r)

C15_Witness ==
    /\ mPc = "returned" /\ mRegions = <<"uk", "usa", "ca">> /\ mSkipped = {2}
    /\ mProduced = {<<"uk", "t1">>, <<"ca", "t2">>}
    /\ Len(mOut) = 5

\* A complete playlist text: the header line, then whole entries (an #EXTINF
\* line followed by a one-field url line).
Complete(text) ==
    /\ Len(text) >= 1 /\ text[1] = <<"#EXTM3U">>
    /\ Len(text) % 2 = 1
    /\ \A k \in 1..((Len(text) - 1) \div 2) :
          /\ Len(text[2 * k]) = 5 /\ text[2 * k][1] = "#EXTINF:-1"
          /\ Len(text[2 * k + 1]) = 1

\* Another request handler or refresh is rebuilding key.
InFlightFor(key) ==
    \E j \in 1..Len(tasks) : tasks[j].pc # "done" /\ tasks[j].key = key

\* C16: a request that misses the cache starts its own rebuild even while another
\* rebuild of its key (by a request or by a refresh) is in flight; every write
\* replaces the entry of one key by a complete text and leaves the others alone;
\* a /playlist request whose rebuild got its channel results is answered 200 with
\* the complete text the cache then holds under its key, a /sports-playlist
\* request whose build returned is answered 200 with its complete text, which is
\* then what the cache holds under its key.
C16_OverlappingRebuilds ==
    [][ /\ (/\ RequestArrives
            /\ Started.key # <<>>
            /\ InFlightFor(Started.key)
            /\ (\/ ~CacheHas(cache, Started.key)
                \/ now - CacheGet(cache, Started.key).timestamp >= 24 * 60 * 60 * 1000))
           => (Started.pc = "catalog" /\ Started.calls = 1)
        /\ \A j \in 1..Len(cache) : Complete(cache[j].m3u)
        /\ cache' # cache
           => /\ Len(cache') \in {Len(cache), Len(cache) + 1}
              /\ Cardinality({j \in 1..Len(cache) : cache'[j] # cache[j]}) <= 1
              /\ \A j \in 1..Len(cache') : Complete(cache'[j].m3u)
        /\ \A i \in 1..Len(tasks) :
              (/\ tasks[i].pc = "channels"
               /\ tasks'[i].pc = "done"
               /\ tasks[i].kind \in {"playlist", "sports"})
              => /\ last'.status = 200
                 /\ Complete(last'.body)
                 /\ CacheHas(cache', tasks[i].key)
                 /\ CacheGet(cache', tasks[i].key).m3u = last'.body
                 /\ CacheGet(cache', tasks[i].key).timestamp \in {now, tasks[i].t0} ]_vars

\* A refresh and a /playlist request are rebuilding the same key at once.
C16_Witness ==
    \E i, j \in 1..Len(tasks) :
        /\ tasks[i].kind = "refresh" /\ tasks[j].kind = "playlist"
        /\ tasks[i].pc # "done" /\ tasks[j].pc # "done"
        /\ tasks[i].key = tasks[j].key
        /\ FetchAndCacheKey(tasks[i].apikey, tasks[i].region, FALSE) = tasks[j].key

\* The requests with a cache key, in flight or just answered.
KeyedRequests ==
    {t \in {tasks[i] : i \in 1..Len(tasks)} \cup {last} :
        t.kind \in {"playlist", "sports"} /\ t.key # <<>>}

\* What a request asks for: its route, API key and region or region list.
Asked(t) ==
    IF t.kind = "playlist" THEN <<"playlist", t.apikey, <<t.region>>>>
    ELSE <<"sports", t.apikey, t.regions>>

\* C17: two requests with the same cache key ask for the same thing (same route,
\* API key and regions), and the text a /playlist request is answered with holds
\* no entry of the multi-region sports build (whose names carry a region tag).
C17_CacheKeysInjective ==
    /\ \A t, u \in KeyedRequests : t.key = u.key => Asked(t) = Asked(u)
    /\ (last.kind = "playlist" /\ last.status = 200)
       => \A k \in 1..((Len(last.body) - 1) \div 2) : Len(last.body[2 * k][5]) = 1

\* C18: every catalog request in flight, of a request handler or of a refresh
\* pass, is for a region of the valid set.
C18_CatalogRegionsValid ==
    \A i \in 1..Len(tasks) :
        tasks[i].pc = "catalog"
        => tasks[i].region \in {"usa", "ca", "mx", "uk", "au", "cl", "fr", "it", "za", "nz", "ee"}

\* C19: a write to the cache never lowers the timestamp stored under a key, and
\* the timestamp it stores is not earlier than the instant of the write, at
\* which the text has just finished building.
C19_TimestampsMonotonic ==
    [][ /\ \A j \in 1..Len(cache) :
              /\ CacheHas(cache', cache[j].key)
              /\ CacheGet(cache', cache[j].key).timestamp >= cache[j].timestamp
        /\ \A j \in 1..Len(cache') :
              (j > Len(cache) \/ cache'[j] # cache[j]) => cache'[j].timestamp >= now ]_vars

====
